---- MODULE Spec2Model ----
(***************************************************************************)
(* Round-synchronous leader election on a unidirectional ring, as          *)
(* implemented by Graph.process_round / round_process / run_election in    *)
(* P4/Practica4_JulietaFlores_JoseZarco_EduardoHernandez.py.               *)
(*                                                                         *)
(* Nodes are named by their position 1..N in the list the ring was built   *)
(* from; ids[i] is Node.id of the i-th node.  Edge(nodes[i],nodes[i+1])    *)
(* makes node i+1 the right neighbour of node i, so the left neighbour of  *)
(* node i is node i-1 (cyclically).                                        *)
(***************************************************************************)
EXTENDS Integers, Sequences, FiniteSets, TLC

\* ---- bounds of the model ------------------------------------------------
MaxN == 3        \* largest ring built
MaxId == 4       \* identifiers are drawn from 0..MaxId
MaxCap == 3      \* small values of max_rounds are drawn from 0..MaxCap

\* ---- program constants --------------------------------------------------
DefaultMaxRounds == 100   \* run_election(max_rounds=100, ...)
None == -1                \* Python None (Node.min, initiator_id, max_rounds unset)
Infinity == -2            \* float('inf')

VARIABLES
    ids,         \* Node.id of every node, in construction order
    nodes,       \* Graph.nodes: the processing order (node positions)
    status,      \* Node.status
    min,         \* Node.min
    waiting,     \* Node.waiting: sequence of <<m, h, stored_time>>
    is_leader,   \* Node.is_leader
    messages,    \* Graph.messages: inbound queue of every node
    now,         \* env.now
    max_rounds,  \* Graph.max_rounds
    activity,    \* local of round_process
    pc,          \* "init" (ring built), "loop" (inside round_process), "done"
    leaders,     \* value returned by run_election
    S,           \* the S of every node in the last processed round
    recv,        \* the R of every node in the last processed round
    seenOwn      \* history: nodes that have found their own id in R

vars == <<ids, nodes, status, min, waiting, is_leader, messages, now,
          max_rounds, activity, pc, leaders, S, recv, seenOwn>>

\* ---- helpers --------------------------------------------------------------
Range(s) == {s[i] : i \in DOMAIN s}

Distinct(s) == \A i, j \in DOMAIN s : i # j => s[i] # s[j]

RECURSIVE Pow2(_)
Pow2(m) == IF m = 0 THEN 1 ELSE 2 * Pow2(m - 1)

MinOf(set) == CHOOSE x \in set : \A y \in set : x <= y

\* lines 23-24 with the two neighbours exchanged
LeftNeighbor_Right(i, n) == IF i = n THEN 1 ELSE i + 1

\* node2.left_neighbor = node1 for Edge(nodes[i], nodes[(i+1) % n])
LeftNeighbor(i, n) == IF i = 1 THEN n ELSE i - 1

\* the rings of the two worked examples
WorkedRing == <<3, 1, 4, 2>>
TrivialRing == <<5>>

\* rings of length lo..MaxN over 0..MaxId, and the rings of the examples
Rings(lo) ==
    UNION {[1..n -> 0..MaxId] : n \in lo..MaxN} \cup {WorkedRing, TrivialRing}

\* ---- the per-node transition rule ------------------------------------------
\* the comparison of line 70 turned around
Smaller_Flipped(m, mn) == mn = None \/ mn = Infinity \/ m > mn

\* line 70 with <= for <
Smaller_OrEqual(m, mn) == mn = None \/ mn = Infinity \/ m <= mn

\* line 70: node.min is None or m < node.min
Smaller(m, mn) == mn = None \/ mn = Infinity \/ m < mn

\* lines 51-65 with the test of line 53 inverted
Activate_Inverted(nd, R, id) ==
    IF nd.status = "asleep"
    THEN IF R # <<>>
         THEN [nd EXCEPT !.status = "participating", !.min = id,
                         !.S = Append(nd.S, <<id, 1>>)]
         ELSE [nd EXCEPT !.status = "relay", !.min = Infinity]
    ELSE nd

\* lines 51-65: activation of an asleep node; nd carries S
Activate(nd, R, id) ==
    IF nd.status = "asleep"
    THEN IF R = <<>>
         THEN [nd EXCEPT !.status = "participating", !.min = id,
                         !.S = Append(nd.S, <<id, 1>>)]
         ELSE [nd EXCEPT !.status = "relay", !.min = Infinity]
    ELSE nd

\* lines 70-91 with line 88 a plain else
Receive_ElseElected(nd, msg, id, t) ==
    LET m == msg[1]
        h == msg[2]
    IN IF Smaller(m, nd.min)
       THEN IF nd.status = "relay" /\ h = 1
            THEN [nd EXCEPT !.status = "not_elected", !.min = m,
                            !.S = Append(nd.S, <<m, h>>)]
            ELSE [nd EXCEPT !.status = "not_elected", !.min = m,
                            !.waiting = Append(nd.waiting, <<m, 2, t>>)]
       ELSE [nd EXCEPT !.status = "elected", !.is_leader = TRUE]

\* lines 70-91 with every foreign candidate that is not smaller queued as well
Receive_ForwardAll(nd, msg, id, t) ==
    LET m == msg[1]
        h == msg[2]
    IN IF Smaller(m, nd.min)
       THEN IF nd.status = "relay" /\ h = 1
            THEN [nd EXCEPT !.status = "not_elected", !.min = m,
                            !.S = Append(nd.S, <<m, h>>)]
            ELSE [nd EXCEPT !.status = "not_elected", !.min = m,
                            !.waiting = Append(nd.waiting, <<m, 2, t>>)]
       ELSE IF m = id
            THEN [nd EXCEPT !.status = "elected", !.is_leader = TRUE]
            ELSE [nd EXCEPT !.waiting = Append(nd.waiting, <<m, 2, t>>)]

\* lines 70-91 without line 90
Receive_NoFlag(nd, msg, id, t) ==
    LET m == msg[1]
        h == msg[2]
    IN IF Smaller(m, nd.min)
       THEN IF nd.status = "relay" /\ h = 1
            THEN [nd EXCEPT !.status = "not_elected", !.min = m,
                            !.S = Append(nd.S, <<m, h>>)]
            ELSE [nd EXCEPT !.status = "not_elected", !.min = m,
                            !.waiting = Append(nd.waiting, <<m, 2, t>>)]
       ELSE IF m = id
            THEN [nd EXCEPT !.status = "elected"]
            ELSE nd

\* lines 70-91 without line 76
Receive_NoMinUpdate(nd, msg, id, t) ==
    LET m == msg[1]
        h == msg[2]
    IN IF Smaller(m, nd.min)
       THEN IF nd.status = "relay" /\ h = 1
            THEN [nd EXCEPT !.status = "not_elected",
                            !.S = Append(nd.S, <<m, h>>)]
            ELSE [nd EXCEPT !.status = "not_elected",
                            !.waiting = Append(nd.waiting, <<m, 2, t>>)]
       ELSE IF m = id
            THEN [nd EXCEPT !.status = "elected", !.is_leader = TRUE]
            ELSE nd

\* lines 70-91: one received message (m, h) at round t
Receive(nd, msg, id, t) ==
    LET m == msg[1]
        h == msg[2]
    IN IF Smaller(m, nd.min)
       THEN IF nd.status = "relay" /\ h = 1
            THEN [nd EXCEPT !.status = "not_elected", !.min = m,
                            !.S = Append(nd.S, <<m, h>>)]
            ELSE [nd EXCEPT !.status = "not_elected", !.min = m,
                            !.waiting = Append(nd.waiting, <<m, 2, t>>)]
       ELSE IF m = id
            THEN [nd EXCEPT !.status = "elected", !.is_leader = TRUE]
            ELSE nd

\* lines 68-91: for m, h in R
RECURSIVE ReceiveAll(_, _, _, _)
ReceiveAll(nd, R, id, t) ==
    IF R = <<>> THEN nd
    ELSE CHOOSE r \in {ReceiveAll(nd1, Tail(R), id, t) :
                         nd1 \in {Receive(nd, Head(R), id, t)}} : TRUE

\* line 97 without the - 1
Due_NoMinusOne(m, stored_time, t) == t - stored_time >= Pow2(m)

\* line 97 with a strict comparison
Due_Strict(m, stored_time, t) == t - stored_time > Pow2(m) - 1

\* line 97: env.now - stored_time >= 2**m - 1
Due(m, stored_time, t) == t - stored_time >= Pow2(m) - 1

\* lines 94-103: the waiting entries that are due go to S, the others stay
Release(nd, t) ==
    LET due(e) == Due(e[1], e[3], t)
        keep(e) == ~Due(e[1], e[3], t)
        out == SelectSeq(nd.waiting, due)
    IN [nd EXCEPT !.S = nd.S \o [k \in 1..Len(out) |-> <<out[k][1], out[k][2]>>],
                  !.waiting = SelectSeq(nd.waiting, keep)]

\* lines 45-103: the body of the loop over the nodes, for one node: S := [],
\* activation, the received messages, the waiting queue.  Every stage is bound
\* to a value (the one element of a singleton) so that it is evaluated once.
ProcessNode(nd0, R, id, t) ==
    CHOOSE r \in {Release(nd2, t) :
                    nd2 \in {ReceiveAll(nd1, R, id, t) :
                               nd1 \in {Activate([nd0 EXCEPT !.S = <<>>], R, id)}}} : TRUE

\* line 106 without the test of node.waiting
Active_SOnly(nd) == nd.S # <<>>

\* lines 106-108: the node is active when S or waiting is non-empty
Active(nd) == nd.S # <<>> \/ nd.waiting # <<>>

\* lines 45-108 for node i: the node's fields, S, and the delivery of S to the
\* left neighbour with the activity flag
AfterNode(g, i, nd, l) ==
    LET g1 == [g EXCEPT !.status[i] = nd.status, !.min[i] = nd.min,
                        !.waiting[i] = nd.waiting,
                        !.is_leader[i] = nd.is_leader,
                        !.S[i] = nd.S]
    IN IF Active(nd)
       THEN [g1 EXCEPT !.activity = TRUE,
                       !.messages[l] = g.messages[l] \o nd.S]
       ELSE g1

\* lines 43-108: the loop over self.nodes; g is the graph, cur the snapshot
\* (line 45: R = current_messages[node])
RECURSIVE ProcessNodes(_, _, _, _, _)
ProcessNodes(order, g, cur, idseq, t) ==
    IF order = <<>> THEN g
    ELSE CHOOSE r \in
           {ProcessNodes(Tail(order), g2, cur, idseq, t) :
              g2 \in {[AfterNode(g, Head(order), nd,
                                 LeftNeighbor(Head(order), Len(idseq)))
                         EXCEPT !.R[Head(order)] = cur[Head(order)]] :
                        nd \in {ProcessNode(
                                  [status |-> g.status[Head(order)],
                                   min |-> g.min[Head(order)],
                                   waiting |-> g.waiting[Head(order)],
                                   is_leader |-> g.is_leader[Head(order)],
                                   S |-> <<>>],
                                  cur[Head(order)], idseq[Head(order)], t)}}} : TRUE

\* lines 43-108 reading self.messages itself: no snapshot, a node's queue is
\* emptied when the node reads it
RECURSIVE ProcessNodes_Live(_, _, _, _)
ProcessNodes_Live(order, g, idseq, t) ==
    IF order = <<>> THEN g
    ELSE CHOOSE r \in
           {ProcessNodes_Live(Tail(order), g2, idseq, t) :
              g2 \in {[AfterNode([g EXCEPT !.messages[Head(order)] = <<>>],
                                 Head(order), nd,
                                 LeftNeighbor(Head(order), Len(idseq)))
                         EXCEPT !.R[Head(order)] = g.messages[Head(order)]] :
                        nd \in {ProcessNode(
                                  [status |-> g.status[Head(order)],
                                   min |-> g.min[Head(order)],
                                   waiting |-> g.waiting[Head(order)],
                                   is_leader |-> g.is_leader[Head(order)],
                                   S |-> <<>>],
                                  g.messages[Head(order)],
                                  idseq[Head(order)], t)}}} : TRUE

\* process_round without lines 37-38
ProcessRound_NoSnapshot(order, g, idseq, t) ==
    CHOOSE r \in
      {ProcessNodes_Live(order, g0, idseq, t) :
         g0 \in {[g EXCEPT !.activity = FALSE,
                           !.S = [i \in DOMAIN idseq |-> <<>>],
                           !.R = [i \in DOMAIN idseq |-> <<>>]]}} : TRUE

\* lines 34-110: process_round
ProcessRound(order, g, idseq, t) ==
    CHOOSE r \in
      {ProcessNodes(order, g0, cur, idseq, t) :
         g0 \in {[g EXCEPT !.messages = [i \in DOMAIN idseq |-> <<>>],
                           !.activity = FALSE,
                           !.S = [i \in DOMAIN idseq |-> <<>>],
                           !.R = [i \in DOMAIN idseq |-> <<>>]]},
         cur \in {g.messages}} : TRUE

\* the graph as one record
Graph ==
    [status |-> status, min |-> min, waiting |-> waiting,
     is_leader |-> is_leader, messages |-> messages, activity |-> activity,
     S |-> S, R |-> recv]

\* line 116 without the test of activity
LoopCond_CapOnly(act, t, cap) == t < cap

\* line 116 without the test of the round cap
LoopCond_ActivityOnly(act, t, cap) == act

\* line 116: while activity and self.env.now < self.max_rounds
LoopCond(act, t, cap) == act /\ t < cap

\* line 135 without the second list
Reorder_InitiatorOnly(order, idseq, initiator_id) ==
    LET first(i) == idseq[i] = initiator_id
    IN SelectSeq(order, first)

\* line 135: the initiator first, the other nodes in their order
Reorder(order, idseq, initiator_id) ==
    LET first(i) == idseq[i] = initiator_id
        others(i) == idseq[i] # initiator_id
    IN SelectSeq(order, first) \o SelectSeq(order, others)

\* line 142: leaders = [node for node in self.nodes if node.is_leader]
Leaders(order, lead) ==
    LET isl(i) == lead[i] IN SelectSeq(order, isl)

\* ---- the state machine ------------------------------------------------------
\* lines 7-16, 28-33, 206-214: the state after the ring has been built
InitRing(idseq) ==
    /\ ids = idseq
    /\ nodes = [i \in DOMAIN idseq |-> i]
    /\ status = [i \in DOMAIN idseq |-> "asleep"]
    /\ min = [i \in DOMAIN idseq |-> None]
    /\ waiting = [i \in DOMAIN idseq |-> <<>>]
    /\ is_leader = [i \in DOMAIN idseq |-> FALSE]
    /\ messages = [i \in DOMAIN idseq |-> <<>>]
    /\ now = 0
    /\ max_rounds = None
    /\ activity = FALSE
    /\ pc = "init"
    /\ leaders = <<>>
    /\ S = [i \in DOMAIN idseq |-> <<>>]
    /\ recv = [i \in DOMAIN idseq |-> <<>>]
    /\ seenOwn = {}

\* rings of pairwise distinct identifiers, N >= 1
Init == \E idseq \in Rings(1) : Distinct(idseq) /\ InitRing(idseq)

\* any sequence of identifiers, as Graph.__init__ takes it
InitAny == \E idseq \in Rings(0) : InitRing(idseq)

\* lines 129-138 and 114: run_election up to the start of round_process
RunElection ==
    /\ pc = "init"
    /\ \E cap \in (0..MaxCap) \cup {DefaultMaxRounds},
          initiator_id \in Range(ids) \cup {None} :
         /\ max_rounds' = cap
         /\ nodes' = Reorder(nodes, ids, initiator_id)
    /\ activity' = TRUE
    /\ pc' = "loop"
    /\ UNCHANGED <<ids, status, min, waiting, is_leader, messages, now,
                   leaders, S, recv, seenOwn>>

\* lines 116-127: one iteration of the loop of round_process
Round ==
    /\ pc = "loop"
    /\ LoopCond(activity, now, max_rounds)
    /\ \E g \in {ProcessRound(nodes, Graph, ids, now)} :
          /\ status' = g.status
          /\ min' = g.min
          /\ waiting' = g.waiting
          /\ is_leader' = g.is_leader
          /\ messages' = g.messages
          /\ activity' = g.activity
          /\ S' = g.S
          /\ recv' = g.R
    /\ seenOwn' = seenOwn \cup
          {i \in DOMAIN ids : \E k \in DOMAIN messages[i] :
                                   messages[i][k][1] = ids[i]}
    /\ now' = now + 1
    /\ UNCHANGED <<ids, nodes, max_rounds, pc, leaders>>

\* lines 116, 139-148: the loop ends and run_election returns the leaders
Return ==
    /\ pc = "loop"
    /\ ~LoopCond(activity, now, max_rounds)
    /\ leaders' = Leaders(nodes, is_leader)
    /\ pc' = "done"
    /\ UNCHANGED <<ids, nodes, status, min, waiting, is_leader, messages,
                   now, max_rounds, activity, S, recv, seenOwn>>

Next == RunElection \/ Round \/ Return

Spec == Init /\ [][Next]_vars

SpecAny == InitAny /\ [][Next]_vars

\* round_process is the only process of the simulation and always runs
FairSpec == Init /\ [][Next]_vars /\ WF_vars(Next)

\* lines 112-127: round_process run to its end from round t, as a function
RECURSIVE RoundProcess(_, _, _, _, _)
RoundProcess(order, g, idseq, t, cap) ==
    IF LoopCond(g.activity, t, cap)
    THEN CHOOSE r \in {RoundProcess(order, g1, idseq, t + 1, cap) :
                         g1 \in {ProcessRound(order, g, idseq, t)}} : TRUE
    ELSE g

\* lines 129-148: run_election on a freshly built ring; the ids of the leaders
ElectedIds(idseq, initiator_id, cap) ==
    LET order == Reorder([i \in DOMAIN idseq |-> i], idseq, initiator_id)
        g0 == [status |-> [i \in DOMAIN idseq |-> "asleep"],
               min |-> [i \in DOMAIN idseq |-> None],
               waiting |-> [i \in DOMAIN idseq |-> <<>>],
               is_leader |-> [i \in DOMAIN idseq |-> FALSE],
               messages |-> [i \in DOMAIN idseq |-> <<>>],
               activity |-> TRUE,
               S |-> [i \in DOMAIN idseq |-> <<>>],
               R |-> [i \in DOMAIN idseq |-> <<>>]]
        g == RoundProcess(order, g0, idseq, 0, cap)
        l == Leaders(order, g.is_leader)
    IN [k \in 1..Len(l) |-> idseq[l[k]]]

\* ---- vocabulary of the properties ---------------------------------------------
MinId == MinOf(Range(ids))

Elected == {i \in DOMAIN ids : status[i] = "elected"}

Terminal(st) == st \in {"elected", "not_elected"}

\* run_election has returned because a round had no activity
HaltedQuiet == pc = "done" /\ ~activity

\* run_election has returned because the round counter reached the cap
HaltedByCap == pc = "done" /\ activity /\ now >= max_rounds

\* the step is an execution of process_round
RoundStep == pc = "loop" /\ now' = now + 1

\* C1: when run_election stops after a round without activity, exactly one
\* node has is_leader = TRUE and its id is the minimum identifier of the ring.
C1_UniqueMinLeader ==
    HaltedQuiet =>
        /\ Cardinality({i \in DOMAIN ids : is_leader[i]}) = 1
        /\ \A i \in DOMAIN ids : is_leader[i] => ids[i] = MinId

C1_Witness ==
    /\ HaltedQuiet
    /\ now < max_rounds
    /\ Len(ids) >= 3
    /\ \E i \in DOMAIN ids : is_leader[i] /\ ids[i] = MinId /\ ids[i] > 0

\* C2: in every reachable state at most one node has status elected, and an
\* elected node holds the minimum identifier.
C2_AtMostOneElected ==
    /\ Cardinality(Elected) <= 1
    /\ \A i \in Elected : ids[i] = MinId

C2_Witness ==
    /\ pc = "loop"
    /\ Len(ids) >= 2
    /\ Elected # {}
    /\ \E i \in DOMAIN ids : status[i] = "not_elected"

\* C3: a status only moves asleep -> {participating, relay} ->
\* {not_elected, elected}; a status elected or not_elected never changes.
StatusForward(a, b) ==
    \/ a = b
    \/ a = "asleep"
    \/ a \in {"participating", "relay"} /\ Terminal(b)

C3_StatusForward ==
    [][\A i \in DOMAIN ids :
          /\ StatusForward(status[i], status'[i])
          /\ Terminal(status[i]) => status'[i] = status[i]]_vars

\* a node that was not_elected before the last round (it has queued the
\* minimum and released it since) in a ring whose election is over
C3_Witness ==
    /\ pc = "loop"
    /\ Elected # {}
    /\ \E i \in DOMAIN ids :
         /\ status[i] = "not_elected"
         /\ min[i] = MinId /\ MinId >= 1
         /\ waiting[i] = <<>> /\ S[i] = <<>>

\* C4: whichever node of the ring is the initiator, run_election ends with the
\* same single leader, the node of the minimum identifier.
C4_InitiatorIrrelevant ==
    HaltedQuiet =>
        \A initiator_id \in Range(ids) :
            /\ ElectedIds(ids, initiator_id, max_rounds) = <<MinId>>
            /\ ElectedIds(ids, initiator_id, max_rounds) =
                  [k \in 1..Len(leaders) |-> ids[leaders[k]]]

C4_Witness ==
    /\ HaltedQuiet
    /\ Len(ids) >= 3
    /\ Len(leaders) = 1
    /\ nodes[1] # 1
    /\ ids[nodes[1]] # MinId

\* C5: a waiting entry (m, 2, t) stays in waiting in every processed round r
\* with r - t < 2^m - 1 and is moved to S in the first round r with
\* r - t >= 2^m - 1; no phase-2 message is emitted earlier.
InSeq(x, seq) == \E k \in DOMAIN seq : seq[k] = x

C5_ReleaseTiming ==
    [][RoundStep =>
        \A i \in DOMAIN ids :
          \* the entries queued in earlier rounds
          /\ \A k \in DOMAIN waiting[i] :
                LET e == waiting[i][k]
                IN IF now - e[3] < Pow2(e[1]) - 1
                   THEN InSeq(e, waiting'[i])
                   ELSE /\ InSeq(<<e[1], 2>>, S'[i])
                        /\ ~InSeq(e, waiting'[i])
          \* what is still queued after round now is not yet due
          /\ \A k \in DOMAIN waiting'[i] :
                LET e == waiting'[i][k]
                IN e[2] = 2 /\ e[3] <= now /\ now - e[3] < Pow2(e[1]) - 1
          \* a phase-2 message in S was queued at least 2^m - 1 rounds ago
          /\ \A k \in DOMAIN S'[i] :
                LET m == S'[i][k][1]
                IN S'[i][k][2] = 2 =>
                     \/ \E j \in DOMAIN waiting[i] :
                           /\ waiting[i][j][1] = m
                           /\ waiting[i][j][3] + Pow2(m) - 1 <= now
                     \/ /\ m = 0
                        /\ InSeq(<<0, 1>>, messages[i]) \/ InSeq(<<0, 2>>, messages[i])
    ]_vars

\* an entry that had to wait has been released, another is still held back
C5_Witness ==
    /\ \E i \in DOMAIN ids : \E k \in DOMAIN S[i] :
          S[i][k][2] = 2 /\ S[i][k][1] >= 2
    /\ \E i \in DOMAIN ids : \E k \in DOMAIN waiting[i] :
          waiting[i][k][3] + 2 < now

\* C6: after a round in which every S and every waiting queue is empty no
\* further round is processed; the run ends with the round counter one greater
\* than that round.
C6_EarlyHalt ==
    [][/\ (RoundStep /\ \A i \in DOMAIN ids : S'[i] = <<>> /\ waiting'[i] = <<>>)
          => ~activity'
       /\ (pc = "loop" /\ ~activity) => (pc' = "done" /\ now' = now)]_vars

C6_Witness ==
    /\ HaltedQuiet
    /\ now < max_rounds
    /\ now >= 2
    /\ \A i \in DOMAIN ids : S[i] = <<>> /\ waiting[i] = <<>>

\* C7: run_election terminates, and the round counter (the number of executions
\* of process_round) never exceeds max_rounds.
C7_Terminates ==
    /\ <>(pc = "done")
    /\ [](pc # "init" => now <= max_rounds)

\* the cap stopped a run in which entries were waiting and messages in flight
C7_Witness ==
    /\ HaltedByCap
    /\ now = max_rounds
    /\ \E i \in DOMAIN ids : waiting[i] # <<>>
    /\ \E i \in DOMAIN ids : messages[i] # <<>>

\* C8: when the cap stops the run before the minimum identifier has come back
\* to its node, run_election returns no leader and no node is elected.
C8_CapNoLeader ==
    (pc = "done" /\ now >= max_rounds
       /\ \A i \in DOMAIN ids : ids[i] = MinId => i \notin seenOwn)
    => /\ leaders = <<>>
       /\ \A i \in DOMAIN ids : status[i] # "elected" /\ ~is_leader[i]

C8_Witness ==
    /\ HaltedByCap
    /\ now >= 2
    /\ leaders = <<>>
    /\ \A i \in DOMAIN ids : ids[i] = MinId => i \notin seenOwn

\* C9: a ring built from an empty sequence of identifiers or from one with a
\* duplicate is rejected when it is built: no election is run on it.
C9_InvalidRingRejected ==
    (Len(ids) < 1 \/ ~Distinct(ids)) => (pc = "init" /\ now = 0)

\* C10: run_election never returns several leaders as its result.
C10_SeveralLeadersIsError ==
    pc = "done" => Len(leaders) <= 1

\* C11: on the ring [3, 1, 4, 2] with initiator 4 and max_rounds = 100 node 1
\* ends as the only leader, nodes 3, 4 and 2 end not_elected, and the run stops
\* after a round without activity before the round counter reaches max_rounds.
C11_WorkedExample ==
    (pc = "done" /\ ids = WorkedRing /\ ids[nodes[1]] = 4
       /\ max_rounds = DefaultMaxRounds)
    => /\ [k \in 1..Len(leaders) |-> ids[leaders[k]]] = <<1>>
       /\ is_leader = <<FALSE, TRUE, FALSE, FALSE>>
       /\ status = <<"not_elected", "elected", "not_elected", "not_elected">>
       /\ ~activity
       /\ now < max_rounds

C11_Witness ==
    /\ pc = "done" /\ ids = WorkedRing /\ nodes = <<3, 1, 2, 4>>
    /\ max_rounds = DefaultMaxRounds
    /\ leaders = <<2>>

\* C12: the single node of the ring [5] wakes in round 0 and sends (5, 1) to
\* itself, is elected with is_leader in round 1, and the scheduler halts then.
C12_SingleNode ==
    (ids = TrivialRing /\ pc # "init")
    => /\ now <= 2
       /\ now = 1 => /\ status[1] = "participating" /\ min[1] = 5
                     /\ ~is_leader[1]
                     /\ recv[1] = <<>>
                     /\ S[1] = <<<<5, 1>>>> /\ messages[1] = <<<<5, 1>>>>
       /\ now = 2 => /\ recv[1] = <<<<5, 1>>>>
                     /\ status[1] = "elected" /\ is_leader[1]
                     /\ ~activity
       /\ (pc = "done" /\ max_rounds >= 2) => (now = 2 /\ leaders = <<1>>)

C12_Witness ==
    /\ ids = TrivialRing /\ pc = "done" /\ now = 2 /\ max_rounds > 2
    /\ status[1] = "elected" /\ is_leader[1]

\* C13: the order in which process_round visits the nodes does not affect the
\* round: every permutation of the nodes gives the same status, min, waiting
\* and is_leader of every node, the same next-round queues and the same
\* activity flag.
Orders ==
    [n \in 0..(MaxN + 1) |->
        {p \in [1..n -> 1..n] : \A a, b \in 1..n : a # b => p[a] # p[b]}]

RoundResult(g) ==
    <<g.status, g.min, g.waiting, g.is_leader, g.messages, g.activity>>

C13_OrderIrrelevant ==
    (pc = "loop" /\ LoopCond(activity, now, max_rounds))
    => \A p \in Orders[Len(ids)] :
          RoundResult(ProcessRound(p, Graph, ids, now))
             = RoundResult(ProcessRound(nodes, Graph, ids, now))

\* a round is about to run on a ring with messages in flight and entries waiting
C13_Witness ==
    /\ pc = "loop" /\ LoopCond(activity, now, max_rounds)
    /\ Len(ids) >= 3
    /\ nodes[1] # 1
    /\ \E i \in DOMAIN ids : messages[i] # <<>> /\ waiting[i] # <<>>
    /\ \E i \in DOMAIN ids : messages[i] = <<>>

\* C14: a message takes one round per hop: what node i puts in S in round r
\* is exactly what its left neighbour finds in R in round r + 1, it reaches no
\* other node and no other round, and nothing emitted in round r is read in
\* round r.
C14_OneRoundPerHop ==
    [][RoundStep =>
        \A i \in DOMAIN ids :
          LET l == IF i = 1 THEN Len(ids) ELSE i - 1
          IN \* R of this round is S of the round before, from the right
             /\ recv'[l] = S[i]
             \* S of this round is queued for the left neighbour only
             /\ messages'[l] = S'[i]
    ]_vars

C14_Witness ==
    /\ pc = "loop" /\ now >= 3
    /\ Len(ids) >= 3
    /\ \E i \in DOMAIN ids : recv[i] # <<>> /\ S[i] # <<>> /\ recv[i] # S[i]
    /\ \E i \in DOMAIN ids : recv[i] = <<>>

\* C15: once set, the min of a node never increases; it changes only to a
\* candidate received in that round that is strictly smaller than it.
Below(a, b) ==
    /\ a \notin {None, Infinity}
    /\ b = Infinity \/ (b # None /\ a < b)

C15_MinNonIncreasing ==
    [][\A i \in DOMAIN ids :
          min[i] # None =>
             \/ min'[i] = min[i]
             \/ /\ Below(min'[i], min[i])
                /\ \E k \in DOMAIN recv'[i] : recv'[i][k][1] = min'[i]]_vars

\* a node has just lowered its min to a received candidate that is not the
\* next smaller identifier of the ring
C15_Witness ==
    \E i \in DOMAIN ids :
       /\ min[i] < ids[i] - 1
       /\ \E k \in DOMAIN recv[i] : recv[i][k][1] = min[i]
       /\ \E j \in DOMAIN ids : ids[j] < ids[i] /\ ids[j] > min[i]

\* C16: a received (m, h) with m not smaller than the node's min and m not the
\* node's id is dropped: status, min, waiting and is_leader stay as they are
\* and the message goes neither to S nor to waiting.
Droppable(msg, mn, id) == ~Below(msg[1], mn) /\ msg[1] # id

\* node i as it stands when it reads the k-th message of its queue
BeforeMessage(i, k) ==
    ReceiveAll(Activate([status |-> status[i], min |-> min[i],
                         waiting |-> waiting[i], is_leader |-> is_leader[i],
                         S |-> <<>>], messages[i], ids[i]),
               SubSeq(messages[i], 1, k - 1), ids[i], now)

C16_DroppedMessage ==
    [][/\ \* message by message, on the queues the next round will read
          pc = "loop" =>
            \A i \in DOMAIN ids : \A k \in DOMAIN messages[i] :
               Droppable(messages[i][k], BeforeMessage(i, k).min, ids[i])
               => Receive(BeforeMessage(i, k), messages[i][k], ids[i], now)
                     = BeforeMessage(i, k)
       /\ \* a round in which node i receives only such messages
          RoundStep =>
            \A i \in DOMAIN ids :
               (/\ status[i] # "asleep"
                /\ \A k \in DOMAIN recv'[i] : Droppable(recv'[i][k], min[i], ids[i]))
               => /\ status'[i] = status[i]
                  /\ min'[i] = min[i]
                  /\ is_leader'[i] = is_leader[i]
                  /\ \A k \in DOMAIN waiting'[i] : InSeq(waiting'[i][k], waiting[i])
                  /\ Len(S'[i]) + Len(waiting'[i]) = Len(waiting[i])
                  /\ \A k \in DOMAIN S'[i] :
                        \E j \in DOMAIN waiting[i] :
                           /\ S'[i][k] = <<waiting[i][j][1], waiting[i][j][2]>>
                           /\ ~InSeq(waiting[i][j], waiting'[i])
    ]_vars

\* a node has read a larger foreign candidate and forwarded nothing
C16_Witness ==
    \E i \in DOMAIN ids :
       /\ Len(recv[i]) = 1
       /\ recv[i][1][1] > min[i] /\ recv[i][1][1] # ids[i]
       /\ recv[i][1][2] = 2
       /\ status[i] = "participating"
       /\ S[i] = <<>> /\ waiting[i] = <<>>

\* C17: a node has is_leader exactly when its status is elected.
C17_LeaderIffElected ==
    \A i \in DOMAIN ids : is_leader[i] <=> status[i] = "elected"

C17_Witness ==
    /\ Len(ids) >= 2
    /\ \E i \in DOMAIN ids : is_leader[i] /\ status[i] = "elected"
    /\ \E i \in DOMAIN ids : ~is_leader[i] /\ status[i] = "not_elected"

ElectionRound == (Len(ids) - 1) * Pow2(MinId) + 1

C19_ElectionRound ==
    pc # "init" =>
       \* round r has been processed exactly when now > r
       /\ Elected # {} <=> now > ElectionRound
       /\ \A i \in Elected : ids[i] = MinId /\ is_leader[i]
       /\ pc = "done" =>
             /\ ElectionRound < max_rounds => Len(leaders) = 1
             /\ ElectionRound >= max_rounds =>
                   (leaders = <<>> /\ \A i \in DOMAIN ids : ~is_leader[i])

\* the minimum, not 0, has just come back in a ring of three or more nodes
C19_Witness ==
    /\ pc = "loop"
    /\ Len(ids) >= 3 /\ MinId >= 1
    /\ now = ElectionRound + 1
    /\ Elected # {}

\* C20: when run_election stops after a round without activity every min is
\* the minimum identifier, every node but the leader is not_elected, and every
\* waiting queue and inbound queue is empty.
C20_QuiescentState ==
    HaltedQuiet =>
       \A i \in DOMAIN ids :
          /\ min[i] = MinId
          /\ ~is_leader[i] => status[i] = "not_elected"
          /\ waiting[i] = <<>>
          /\ messages[i] = <<>>

C20_Witness ==
    /\ HaltedQuiet
    /\ Len(ids) >= 3
    /\ now < max_rounds
    /\ \E i \in DOMAIN ids : ids[i] # MinId /\ min[i] = MinId
                               /\ status[i] = "not_elected"

TypeOK ==
    /\ pc \in {"init", "loop", "done"}
    /\ now \in Nat
    /\ \A i \in DOMAIN ids :
         status[i] \in {"asleep", "participating", "relay", "not_elected", "elected"}
====
